---- MODULE Spec2Model ----
(***************************************************************************)
(* State-machine model of paasta_tools/frameworks/task_store.py:           *)
(* the MesosTaskParameters value type, the TaskStore base class, and its   *)
(* two backends DictTaskStore and ZKTaskStore.                             *)
(*                                                                         *)
(* Python objects live in a heap (reference -> __dict__), so that two      *)
(* names bound to one object are one heap cell.  Strings that the code     *)
(* formats into ZooKeeper paths are sequences of characters.               *)
(***************************************************************************)
EXTENDS Integers, Sequences, FiniteSets, TLC

VARIABLES
    heap,      \* reference -> __dict__ of a live MesosTaskParameters object
    tasks,     \* DictTaskStore.tasks: task_id -> reference
    zk,        \* the ZooKeeper tree: node path -> data
    stores,    \* the stores the caller has built, in the order it calls them
    held,      \* what the caller still holds from its last read
    last,      \* the last call and what it returned
    running    \* the calls in progress, each with its position and its locals

vars == <<heap, tasks, zk, stores, held, last, running>>

(***************************************************************************)
(* Python and JSON values                                                  *)
(***************************************************************************)

\* The keyword arguments of MesosTaskParameters.__init__.
SchemaKeys ==
    {"health", "mesos_task_state", "is_draining", "is_healthy", "offer", "resources"}

\* A keyword that __init__ does not accept.
UnknownKey == "foo"

\* Python's None, the default of every field.
PyNone == "None"

\* The Python values a field takes in the model, written as their repr.
PyValuesOf(k) ==
    CASE k = "health" -> {PyNone, "True", "False"}
      [] k = "mesos_task_state" -> {PyNone, "'TASK_RUNNING'"}
      [] k = "is_draining" -> {PyNone, "True"}
      [] k = "is_healthy" -> {PyNone, "True"}
      [] k = "offer" -> {PyNone, "'offer'"}
      [] k = "resources" -> {PyNone, "[1]"}
      [] OTHER -> {"True"}

\* The result of a call that returned None, and the reference that is None.
NoneVal == <<>>
NoRef == 0

\* No keyword arguments.
NoKwargs == <<>>

\* A faulty json.dumps of one field value: a falsy value is written as null.
json_dumps_value_falsy(v) ==
    CASE v = "None" -> "null"
      [] v = "True" -> "true"
      [] v = "False" -> "null"
      [] v = "'TASK_RUNNING'" -> "\"TASK_RUNNING\""
      [] v = "'offer'" -> "\"offer\""
      [] v = "[1]" -> "[1]"

\* json.dumps of one field value.
json_dumps_value(v) ==
    CASE v = "None" -> "null"
      [] v = "True" -> "true"
      [] v = "False" -> "false"
      [] v = "'TASK_RUNNING'" -> "\"TASK_RUNNING\""
      [] v = "'offer'" -> "\"offer\""
      [] v = "[1]" -> "[1]"

\* json.loads of one JSON value.
json_loads_value(t) ==
    CASE t = "null" -> "None"
      [] t = "true" -> "True"
      [] t = "false" -> "False"
      [] t = "\"TASK_RUNNING\"" -> "'TASK_RUNNING'"
      [] t = "\"offer\"" -> "'offer'"
      [] t = "[1]" -> "[1]"

\* The data of a znode: a JSON object (key -> JSON value), JSON that is not
\* an object, bytes that are not JSON, or the empty bytes of ensure_path.
JsonObject(obj) == [kind |-> "object", obj |-> obj]
JsonArray == [kind |-> "array", obj |-> <<>>]
NotJson == [kind |-> "not-json", obj |-> <<>>]
EmptyBytes == [kind |-> "empty", obj |-> <<>>]

(***************************************************************************)
(* MesosTaskParameters                                                     *)
(***************************************************************************)

\* __init__(**kwargs): a TypeError for an unexpected keyword, otherwise the
\* __dict__ of the new object, every field not given being None.
MesosTaskParameters(kwargs) ==
    IF DOMAIN kwargs \subseteq SchemaKeys
    THEN [exc |-> "none",
          val |-> [k \in SchemaKeys |-> IF k \in DOMAIN kwargs THEN kwargs[k] ELSE PyNone]]
    ELSE [exc |-> "TypeError", val |-> NoneVal]

\* A faulty dict.update: a key that d already has keeps its value.
dict_update_setdefault(d, kwargs) ==
    [k \in DOMAIN d \cup DOMAIN kwargs |-> IF k \in DOMAIN d THEN d[k] ELSE kwargs[k]]

\* dict.update(kwargs) on the dict d.
dict_update(d, kwargs) ==
    [k \in DOMAIN d \cup DOMAIN kwargs |-> IF k \in DOMAIN kwargs THEN kwargs[k] ELSE d[k]]

\* self.merge(**kwargs) in heap h.  new_dict is self.__dict__ itself, so the
\* update is made on the receiver; the returned object is built from it.
merge(h, self, kwargs) ==
    LET new_dict == dict_update(h[self], kwargs)
        made == MesosTaskParameters(new_dict)
    IN  [heap |-> [h EXCEPT ![self] = new_dict], exc |-> made.exc, val |-> made.val]

\* A faulty __setattr__: the attribute is set, as object.__setattr__ does.
MesosTaskParameters_setattr_sets(h, self, name, value) ==
    [heap |-> [h EXCEPT ![self] = dict_update(h[self], (name :> value))], exc |-> "none"]

\* __setattr__(name, value): raise MesosTaskParametersIsImmutableError()
MesosTaskParameters_setattr(h, self, name, value) ==
    [heap |-> h, exc |-> "MesosTaskParametersIsImmutableError"]

\* __delattr__(name): raise MesosTaskParametersIsImmutableError()
MesosTaskParameters_delattr(h, self, name) ==
    [heap |-> h, exc |-> "MesosTaskParametersIsImmutableError"]

\* serialize(): json.dumps(self.__dict__).
serialize(d) == JsonObject([k \in DOMAIN d |-> json_dumps_value(d[k])])

\* deserialize(serialized_params): cls(**json.loads(serialized_params)).
deserialize(data) ==
    CASE data.kind \in {"not-json", "empty"} -> [exc |-> "JSONDecodeError", val |-> NoneVal]
      [] data.kind = "array" -> [exc |-> "TypeError", val |-> NoneVal]
      [] data.kind = "object" ->
            MesosTaskParameters([k \in DOMAIN data.obj |-> json_loads_value(data.obj[k])])

(***************************************************************************)
(* The value type on its own: one object x (reference 1) and calls on it   *)
(***************************************************************************)

\* Every MesosTaskParameters(...) of the field values above.
AllParameters ==
    {d \in [SchemaKeys -> UNION {PyValuesOf(k) : k \in SchemaKeys}] :
        \A k \in SchemaKeys : d[k] \in PyValuesOf(k)}

\* The keyword arguments a caller passes.
KwargsSamples ==
    {NoKwargs,
     [health |-> "True"],
     [health |-> "False"],
     [is_draining |-> "True"],
     [foo |-> "True"]}

\* The payloads handed to deserialize directly.
PayloadSamples ==
    {NotJson, EmptyBytes, JsonArray,
     JsonObject([health |-> "true"]),
     JsonObject([health |-> "true", foo |-> "true"]),
     JsonObject([k \in SchemaKeys |-> "null"])}

\* A caller that keeps nothing of what it read.
NoHeld == [keeping |-> FALSE, calls |-> 0, refs |-> <<>>, vals |-> <<>>]

InitValue ==
    /\ heap \in {(1 :> x) : x \in AllParameters}
    /\ tasks = <<>>
    /\ zk = <<>>
    /\ stores = <<>>
    /\ held = NoHeld
    /\ last = [op |-> "init"]
    /\ running = <<>>

\* x.merge(**kwargs)
CallMerge(kwargs) ==
    LET m == merge(heap, 1, kwargs)
    IN  /\ heap' = m.heap
        /\ last' = [op |-> "merge", kwargs |-> kwargs, pre |-> heap[1],
                    exc |-> m.exc, ret |-> m.val]
        /\ UNCHANGED <<tasks, zk, stores, held, running>>

\* MesosTaskParameters.deserialize(x.serialize())
CallRoundTrip ==
    LET r == deserialize(serialize(heap[1]))
    IN  /\ last' = [op |-> "roundtrip", kwargs |-> NoKwargs, pre |-> heap[1],
                    exc |-> r.exc, ret |-> r.val]
        /\ UNCHANGED <<heap, tasks, zk, stores, held, running>>

\* MesosTaskParameters.deserialize(data)
CallDeserialize(data) ==
    LET r == deserialize(data)
    IN  /\ last' = [op |-> "deserialize", kwargs |-> data.obj, pre |-> heap[1],
                    exc |-> r.exc, ret |-> r.val]
        /\ UNCHANGED <<heap, tasks, zk, stores, held, running>>

\* The attribute names a caller sets or deletes: fields, and another name.
AttrNames == {"health", "resources", UnknownKey}

\* x.<name> = value
CallSetattr(name, value) ==
    LET r == MesosTaskParameters_setattr(heap, 1, name, value)
    IN  /\ heap' = r.heap
        /\ last' = [op |-> "setattr", kwargs |-> (name :> value), pre |-> heap[1],
                    exc |-> r.exc, ret |-> NoneVal]
        /\ UNCHANGED <<tasks, zk, stores, held, running>>

\* del x.<name>
CallDelattr(name) ==
    LET r == MesosTaskParameters_delattr(heap, 1, name)
    IN  /\ heap' = r.heap
        /\ last' = [op |-> "delattr", kwargs |-> (name :> PyNone), pre |-> heap[1],
                    exc |-> r.exc, ret |-> NoneVal]
        /\ UNCHANGED <<tasks, zk, stores, held, running>>

NextValue ==
    \/ \E kwargs \in KwargsSamples : CallMerge(kwargs)
    \/ CallRoundTrip
    \/ \E data \in PayloadSamples : CallDeserialize(data)
    \/ \E name \in AttrNames, value \in {PyNone, "True"} : CallSetattr(name, value)
    \/ \E name \in AttrNames : CallDelattr(name)

SpecValue == InitValue /\ [][NextValue]_vars

(***************************************************************************)
(* ZooKeeper as the code uses it: a tree of znodes, a node path being the  *)
(* sequence of its components, and a client confined to a chroot           *)
(***************************************************************************)

\* The components of a path string: it is split at '/', empty components
\* dropped.
RECURSIVE normpath_from(_, _, _)
normpath_from(s, comp, comps) ==
    IF s = <<>>
    THEN IF comp = <<>> THEN comps ELSE Append(comps, comp)
    ELSE IF Head(s) = "/"
         THEN normpath_from(Tail(s), <<>>, IF comp = <<>> THEN comps ELSE Append(comps, comp))
         ELSE normpath_from(Tail(s), Append(comp, Head(s)), comps)

normpath(s) == normpath_from(s, <<>>, <<>>)

\* The node a client with chroot c names by the path string p.
zk_node(c, p) == c \o normpath(p)

\* A tree holding the root znode alone.
EmptyTree == (<<>> :> EmptyBytes)

\* zk_client.get(p)
zk_get(z, c, p) ==
    IF zk_node(c, p) \in DOMAIN z
    THEN [exc |-> "none", data |-> z[zk_node(c, p)]]
    ELSE [exc |-> "NoNodeError", data |-> EmptyBytes]

\* A faulty set: it reports success and writes nothing.
zk_set_dropped(z, c, p, data) ==
    IF zk_node(c, p) \in DOMAIN z
    THEN [exc |-> "none", zk |-> z]
    ELSE [exc |-> "NoNodeError", zk |-> z]

\* zk_client.set(p, data)
zk_set(z, c, p, data) ==
    IF zk_node(c, p) \in DOMAIN z
    THEN [exc |-> "none", zk |-> [z EXCEPT ![zk_node(c, p)] = data]]
    ELSE [exc |-> "NoNodeError", zk |-> z]

\* A faulty create: on a node that exists it raises NodeExistsError and
\* writes the data all the same.
zk_create_clobbers(z, c, p, data) ==
    LET node == zk_node(c, p)
    IN  IF node \in DOMAIN z
        THEN [exc |-> "NodeExistsError", zk |-> [z EXCEPT ![node] = data]]
        ELSE IF SubSeq(node, 1, Len(node) - 1) \notin DOMAIN z
             THEN [exc |-> "NoNodeError", zk |-> z]
             ELSE [exc |-> "none", zk |-> (node :> data) @@ z]

\* zk_client.create(p, data)
zk_create(z, c, p, data) ==
    LET node == zk_node(c, p)
    IN  IF node \in DOMAIN z
        THEN [exc |-> "NodeExistsError", zk |-> z]
        ELSE IF SubSeq(node, 1, Len(node) - 1) \notin DOMAIN z
             THEN [exc |-> "NoNodeError", zk |-> z]
             ELSE [exc |-> "none", zk |-> (node :> data) @@ z]

\* zk_client.get_children(p): the names of the children of the node.
zk_get_children(z, c, p) ==
    LET node == zk_node(c, p)
    IN  {n[Len(n)] : n \in {m \in DOMAIN z :
                               /\ Len(m) = Len(node) + 1
                               /\ SubSeq(m, 1, Len(node)) = node}}

\* zk_client.ensure_path(p): the node and its missing ancestors are created
\* with empty data.
zk_ensure_path(z, c, p) ==
    LET node == zk_node(c, p)
        missing == {SubSeq(node, 1, i) : i \in 0..Len(node)} \ DOMAIN z
    IN  [n \in DOMAIN z \cup missing |-> IF n \in DOMAIN z THEN z[n] ELSE EmptyBytes]

(***************************************************************************)
(* The two backends.  A store state S is [heap, tasks, zk]; a store st is  *)
(* a record of its backend, the chroot of its zk_client and its triple.    *)
(* Every operation returns the state it leaves, the exception it raised    *)
(* (or "none") and the reference it returned.                              *)
(***************************************************************************)

\* TaskStore.__init__ keeps the triple the store was built with.
DictTaskStore_init(service_name, instance_name, framework_id) ==
    [backend |-> "dict", chroot |-> <<>>,
     triple |-> <<service_name, instance_name, framework_id>>]

\* A new object with __dict__ d: the least reference not in use.
new_object(h, d) ==
    LET n == CHOOSE i \in 1..(Cardinality(DOMAIN h) + 1) :
                 /\ i \notin DOMAIN h
                 /\ \A j \in 1..(i - 1) : j \in DOMAIN h
    IN  [heap |-> (n :> d) @@ h, ref |-> n]

\* 'task_store/%s/%s/%s' % (service_name, instance_name, framework_id)
chroot_of(service_name, instance_name, framework_id) ==
    <<"t", "a", "s", "k", "_", "s", "t", "o", "r", "e">> \o <<"/">> \o service_name
        \o <<"/">> \o instance_name \o <<"/">> \o framework_id

\* ZKTaskStore.__init__: ensure_path(chroot) on the temporary client, then
\* a client whose chroot is that path, and ensure_path('/') on it.
ZKTaskStore_init(z, service_name, instance_name, framework_id) ==
    LET chroot == chroot_of(service_name, instance_name, framework_id)
        z1 == zk_ensure_path(z, <<>>, chroot)
        c == normpath(<<"/">> \o chroot)
    IN  [zk |-> zk_ensure_path(z1, c, <<"/">>),
         store |-> [backend |-> "zk", chroot |-> c,
                    triple |-> <<service_name, instance_name, framework_id>>]]

\* _zk_path_from_task_id: '/%s' % task_id
zk_path_from_task_id(task_id) == <<"/">> \o task_id

\* _task_id_from_zk_path: zk_path.lstrip('/')
RECURSIVE task_id_from_zk_path(_)
task_id_from_zk_path(zk_path) ==
    IF zk_path # <<>> /\ Head(zk_path) = "/"
    THEN task_id_from_zk_path(Tail(zk_path))
    ELSE zk_path

\* A faulty get_task: a default MesosTaskParameters() where None is due.
get_task_default(S, st, task_id) ==
    LET o == new_object(S.heap, MesosTaskParameters(NoKwargs).val)
    IN  [S |-> [S EXCEPT !.heap = o.heap], exc |-> "none", ref |-> o.ref]

\* DictTaskStore.get_task: the stored object itself.
\* ZKTaskStore.get_task: a new object deserialized from the znode; None for
\* NoNodeError and for JSONDecodeError, any other exception propagates.
get_task(S, st, task_id) ==
    IF st.backend = "dict"
    THEN [S |-> S, exc |-> "none",
          ref |-> IF task_id \in DOMAIN S.tasks THEN S.tasks[task_id] ELSE NoRef]
    ELSE LET g == zk_get(S.zk, st.chroot, <<"/">> \o task_id)
             d == deserialize(g.data)
             o == new_object(S.heap, d.val)
         IN  CASE g.exc = "NoNodeError" -> [S |-> S, exc |-> "none", ref |-> NoRef]
               [] g.exc = "none" /\ d.exc = "JSONDecodeError" ->
                     [S |-> S, exc |-> "none", ref |-> NoRef]
               [] g.exc = "none" /\ d.exc = "TypeError" ->
                     [S |-> S, exc |-> "TypeError", ref |-> NoRef]
               [] g.exc = "none" /\ d.exc = "none" ->
                     [S |-> [S EXCEPT !.heap = o.heap], exc |-> "none", ref |-> o.ref]

\* get_all_tasks, ZKTaskStore: get_task of every child of '/', the Nones
\* left out.  all_tasks is built child by child; an exception ends the call.
RECURSIVE zk_get_all_from(_, _, _, _)
zk_get_all_from(S, st, children, all_tasks) ==
    IF children = {}
    THEN [S |-> S, exc |-> "none", map |-> all_tasks]
    ELSE LET child_path == CHOOSE c \in children : TRUE
             task_id == task_id_from_zk_path(child_path)
             params == get_task(S, st, task_id)
         IN  IF params.exc # "none"
             THEN [S |-> params.S, exc |-> params.exc, map |-> <<>>]
             ELSE zk_get_all_from(params.S, st, children \ {child_path},
                                  IF params.ref # NoRef
                                  THEN (task_id :> params.ref) @@ all_tasks
                                  ELSE all_tasks)

\* get_all_tasks.  DictTaskStore: dict(self.tasks), a new mapping to the
\* stored objects.
get_all_tasks(S, st) ==
    IF st.backend = "dict"
    THEN [S |-> S, exc |-> "none", map |-> S.tasks]
    ELSE zk_get_all_from(S, st, zk_get_children(S.zk, st.chroot, <<"/">>), <<>>)

\* A faulty overwrite_task: ZKTaskStore sets the znode and lets NoNodeError
\* propagate.
overwrite_task_set_only(S, st, task_id, params) ==
    IF st.backend = "dict"
    THEN LET d == deserialize(serialize(S.heap[params]))
             o == new_object(S.heap, d.val)
         IN  IF d.exc # "none"
             THEN [S |-> S, exc |-> d.exc, via |-> "none"]
             ELSE [S |-> [S EXCEPT !.heap = o.heap,
                                   !.tasks = (task_id :> o.ref) @@ S.tasks],
                   exc |-> "none", via |-> "setitem"]
    ELSE LET data == serialize(S.heap[params])
             s == zk_set(S.zk, st.chroot, zk_path_from_task_id(task_id), data)
         IN  [S |-> [S EXCEPT !.zk = s.zk], exc |-> s.exc, via |-> "set"]

\* overwrite_task(task_id, params).  DictTaskStore stores
\* deserialize(params.serialize()); ZKTaskStore sets the znode and, on
\* NoNodeError, creates it.  via names the primitive that was called last.
overwrite_task(S, st, task_id, params) ==
    IF st.backend = "dict"
    THEN LET d == deserialize(serialize(S.heap[params]))
             o == new_object(S.heap, d.val)
         IN  IF d.exc # "none"
             THEN [S |-> S, exc |-> d.exc, via |-> "none"]
             ELSE [S |-> [S EXCEPT !.heap = o.heap,
                                   !.tasks = (task_id :> o.ref) @@ S.tasks],
                   exc |-> "none", via |-> "setitem"]
    ELSE LET data == serialize(S.heap[params])
             s == zk_set(S.zk, st.chroot, zk_path_from_task_id(task_id), data)
             c == zk_create(S.zk, st.chroot, zk_path_from_task_id(task_id), data)
         IN  IF s.exc = "none"
             THEN [S |-> [S EXCEPT !.zk = s.zk], exc |-> "none", via |-> "set"]
             ELSE [S |-> [S EXCEPT !.zk = c.zk], exc |-> c.exc, via |-> "create"]

\* A faulty add_task_if_doesnt_exist: the task is written whether or not it
\* exists.
add_task_unconditionally(S, st, task_id, kwargs) ==
    LET made == MesosTaskParameters(kwargs)
        o == new_object(S.heap, made.val)
    IN  IF made.exc # "none"
        THEN [S |-> S, exc |-> made.exc]
        ELSE overwrite_task([S EXCEPT !.heap = o.heap], st, task_id, o.ref)

\* TaskStore.add_task_if_doesnt_exist(task_id, **kwargs)
add_task_if_doesnt_exist(S, st, task_id, kwargs) ==
    LET g == get_task(S, st, task_id)
        made == MesosTaskParameters(kwargs)
        o == new_object(g.S.heap, made.val)
    IN  CASE g.exc # "none" -> [S |-> g.S, exc |-> g.exc]
          [] g.exc = "none" /\ g.ref # NoRef -> [S |-> g.S, exc |-> "none"]
          [] g.exc = "none" /\ g.ref = NoRef /\ made.exc # "none" ->
                [S |-> g.S, exc |-> made.exc]
          [] OTHER -> overwrite_task([g.S EXCEPT !.heap = o.heap], st, task_id, o.ref)

\* TaskStore.update_task(task_id, **kwargs): returns merged_params.
update_task(S, st, task_id, kwargs) ==
    LET existing_task == get_task(S, st, task_id)
        m == merge(existing_task.S.heap, existing_task.ref, kwargs)
        made == IF existing_task.ref # NoRef
                THEN [heap |-> m.heap, exc |-> m.exc, val |-> m.val]
                ELSE [heap |-> existing_task.S.heap,
                      exc |-> MesosTaskParameters(kwargs).exc,
                      val |-> MesosTaskParameters(kwargs).val]
        S1 == [existing_task.S EXCEPT !.heap = made.heap]
        merged_params == new_object(S1.heap, made.val)
        w == overwrite_task([S1 EXCEPT !.heap = merged_params.heap], st, task_id,
                            merged_params.ref)
    IN  CASE existing_task.exc # "none" ->
                [S |-> existing_task.S, exc |-> existing_task.exc, ref |-> NoRef]
          [] existing_task.exc = "none" /\ made.exc # "none" ->
                [S |-> S1, exc |-> made.exc, ref |-> NoRef]
          [] OTHER -> [S |-> w.S, exc |-> w.exc,
                       ref |-> IF w.exc = "none" THEN merged_params.ref ELSE NoRef]

\* A faulty garbage_collect_old_tasks: every task is removed.
garbage_collect_removes_all(S, st, max_dead_task_age) ==
    IF st.backend = "dict"
    THEN [S |-> [S EXCEPT !.tasks = <<>>], exc |-> "none"]
    ELSE [S |-> [S EXCEPT !.zk = [n \in {m \in DOMAIN S.zk : Len(m) <= Len(st.chroot)}
                                     |-> S.zk[n]]],
          exc |-> "none"]

\* A faulty garbage_collect_old_tasks: it returns and does nothing.
garbage_collect_silently(S, st, max_dead_task_age) == [S |-> S, exc |-> "none"]

\* TaskStore.garbage_collect_old_tasks(max_dead_task_age), which neither
\* backend overrides: raise NotImplementedError().
garbage_collect_old_tasks(S, st, max_dead_task_age) ==
    [S |-> S, exc |-> "NotImplementedError"]

(***************************************************************************)
(* One caller making calls on the stores it has built: each call is made   *)
(* on every store of `stores`, one after the other.  A caller that keeps   *)
(* what its reads return (held.keeping) holds the returned objects; an     *)
(* object nobody refers to any more is dropped from the heap.              *)
(***************************************************************************)

\* How many task ids the caller uses.
NumTaskIds == 2

\* How many calls a caller that keeps its reads makes.
MaxKeptCalls == 5

Digits == <<"1", "2", "3", "4", "5", "6", "7", "8", "9">>
TaskId(i) == <<"t", Digits[i]>>
TaskIds == {TaskId(i) : i \in 1..NumTaskIds}

\* The triple the ZKTaskStore is built with.
ServiceName == <<"s">>
InstanceName == <<"i">>
FrameworkId == <<"f">>

\* The keyword arguments of the calls on a store, and those that
\* overwrite_task's params are built from.
CallKwargs ==
    {[health |-> "True"],
     [health |-> "False", is_draining |-> "True"],
     [foo |-> "True"]}
ParamsKwargs == {kwargs \in CallKwargs : DOMAIN kwargs \subseteq SchemaKeys}

\* The references the program still holds, in a fixed order: those of
\* DictTaskStore.tasks, then those the caller keeps, store by store.
roots_of(t, hd) ==
    [i \in 1..((1 + Len(hd.refs)) * NumTaskIds) |->
        LET id == TaskId(((i - 1) % NumTaskIds) + 1)
            m == IF i <= NumTaskIds THEN t ELSE hd.refs[(i - 1) \div NumTaskIds]
        IN  IF id \in DOMAIN m THEN m[id] ELSE NoRef]

\* The heap without its unreachable objects, the reachable ones renamed
\* 1, 2, ... in the order of roots_of (a reference's number carries no meaning).
collect(S, hd) ==
    LET rs == roots_of(S.tasks, hd)
        live == {rs[i] : i \in DOMAIN rs} \ {NoRef}
        first(r) == CHOOSE i \in DOMAIN rs : rs[i] = r /\ \A j \in 1..(i - 1) : rs[j] # r
        ren == [r \in live |->
                   Cardinality({rs[j] : j \in 1..(first(r) - 1)} \ {NoRef}) + 1]
        inv(n) == CHOOSE r \in live : ren[r] = n
    IN  [heap |-> [n \in 1..Cardinality(live) |-> S.heap[inv(n)]],
         tasks |-> [id \in DOMAIN S.tasks |-> ren[S.tasks[id]]],
         held |-> [hd EXCEPT !.refs = [i \in DOMAIN hd.refs |->
                                          [id \in DOMAIN hd.refs[i] |-> ren[hd.refs[i][id]]]]]]

Now == [heap |-> heap, tasks |-> tasks, zk |-> zk]

\* The value of a returned reference, and of a returned mapping.
value_of(S, ref) == IF ref = NoRef THEN NoneVal ELSE S.heap[ref]
values_of(S, map) == [id \in DOMAIN map |-> S.heap[map[id]]]

\* What get_task(task_id) gives in state S, by value.
read(S, st, task_id) ==
    LET g == get_task(S, st, task_id)
    IN  [exc |-> g.exc, val |-> value_of(g.S, g.ref)]

\* What get_all_tasks() gives in state S, by value.
read_all(S, st) ==
    LET g == get_all_tasks(S, st)
    IN  [exc |-> g.exc, val |-> values_of(g.S, g.map)]

\* The call f made on every store in turn: the results, store by store.
on_each(f(_, _)) ==
    LET r1 == f(Now, stores[1])
    IN  IF Len(stores) = 1 THEN <<r1>> ELSE <<r1, f(r1.S, stores[2])>>

\* The record of a call: per store, what get_task(task_id) gave before the
\* call, the exception the call raised and what it returned.  A caller that
\* keeps its reads is recorded by the name of the call alone.
record(op, task_id, kwargs, rs, ret(_), via(_)) ==
    IF held.keeping
    THEN [op |-> op]
    ELSE [op |-> op, task_id |-> task_id, kwargs |-> kwargs,
          res |-> [i \in DOMAIN rs |->
                      [pre |-> read(Now, stores[i], task_id),
                       exc |-> rs[i].exc,
                       ret |-> ret(i),
                       via |-> via(i)]]]

\* What the caller holds after a read that returned the mappings maps.
keep(S, maps) ==
    IF held.keeping
    THEN [held EXCEPT !.refs = maps,
                      !.vals = [i \in DOMAIN maps |-> values_of(S, maps[i])]]
    ELSE held

Commit(S, hd, l) ==
    LET c == collect(S, hd)
    IN  /\ held.keeping => held.calls < MaxKeptCalls
        /\ heap' = c.heap
        /\ tasks' = c.tasks
        /\ zk' = S.zk
        /\ held' = [c.held EXCEPT !.calls = IF held.keeping THEN @ + 1 ELSE @]
        /\ last' = l
        /\ UNCHANGED <<stores, running>>

\* store.get_task(task_id)
CallGetTask(task_id) ==
    LET rs == on_each(LAMBDA S, st : get_task(S, st, task_id))
        S1 == rs[Len(rs)].S
    IN  Commit(S1,
               keep(S1, [i \in DOMAIN rs |->
                            IF rs[i].ref # NoRef THEN (task_id :> rs[i].ref) ELSE <<>>]),
               record("get_task", task_id, NoKwargs, rs,
                      LAMBDA i : value_of(S1, rs[i].ref), LAMBDA i : "none"))

\* store.get_all_tasks()
CallGetAllTasks ==
    LET rs == on_each(LAMBDA S, st : get_all_tasks(S, st))
        S1 == rs[Len(rs)].S
    IN  Commit(S1,
               keep(S1, [i \in DOMAIN rs |-> rs[i].map]),
               record("get_all_tasks", <<>>, NoKwargs, rs,
                      LAMBDA i : values_of(S1, rs[i].map), LAMBDA i : "none"))

\* store.overwrite_task(task_id, MesosTaskParameters(**kwargs))
CallOverwriteTask(task_id, kwargs) ==
    LET rs == on_each(LAMBDA S, st :
                  LET params == new_object(S.heap, MesosTaskParameters(kwargs).val)
                  IN  overwrite_task([S EXCEPT !.heap = params.heap], st, task_id,
                                     params.ref))
    IN  Commit(rs[Len(rs)].S, held,
               record("overwrite_task", task_id, kwargs, rs,
                      LAMBDA i : NoneVal, LAMBDA i : rs[i].via))

\* store.add_task_if_doesnt_exist(task_id, **kwargs)
CallAddTaskIfDoesntExist(task_id, kwargs) ==
    LET rs == on_each(LAMBDA S, st : add_task_if_doesnt_exist(S, st, task_id, kwargs))
    IN  Commit(rs[Len(rs)].S, held,
               record("add_task_if_doesnt_exist", task_id, kwargs, rs,
                      LAMBDA i : NoneVal, LAMBDA i : "none"))

\* store.update_task(task_id, **kwargs)
CallUpdateTask(task_id, kwargs) ==
    LET rs == on_each(LAMBDA S, st : update_task(S, st, task_id, kwargs))
        S1 == rs[Len(rs)].S
    IN  Commit(S1, held,
               record("update_task", task_id, kwargs, rs,
                      LAMBDA i : value_of(S1, rs[i].ref), LAMBDA i : "none"))

NextStores ==
    \/ \E task_id \in TaskIds : CallGetTask(task_id)
    \/ CallGetAllTasks
    \/ \E task_id \in TaskIds, kwargs \in ParamsKwargs : CallOverwriteTask(task_id, kwargs)
    \/ \E task_id \in TaskIds, kwargs \in CallKwargs :
           CallAddTaskIfDoesntExist(task_id, kwargs)
    \/ \E task_id \in TaskIds, kwargs \in CallKwargs : CallUpdateTask(task_id, kwargs)

\* The ages, in seconds, a caller passes as max_dead_task_age.
MaxDeadTaskAges == {0, 3600}

\* store.garbage_collect_old_tasks(max_dead_task_age)
CallGarbageCollectOldTasks(max_dead_task_age) ==
    LET rs == on_each(LAMBDA S, st : garbage_collect_old_tasks(S, st, max_dead_task_age))
    IN  Commit(rs[Len(rs)].S, held,
               [op |-> "garbage_collect_old_tasks",
                max_dead_task_age |-> max_dead_task_age,
                res |-> [i \in DOMAIN rs |->
                            [pre |-> read_all(Now, stores[i]), exc |-> rs[i].exc]]])

\* The calls of a caller that also calls garbage_collect_old_tasks.
NextCollecting ==
    \/ NextStores
    \/ \E max_dead_task_age \in MaxDeadTaskAges :
           CallGarbageCollectOldTasks(max_dead_task_age)

\* The DictTaskStore of the caller.
BuiltDict == DictTaskStore_init(ServiceName, InstanceName, FrameworkId)

\* The ZKTaskStore of the caller, built on an empty tree.
BuiltZK == ZKTaskStore_init(EmptyTree, ServiceName, InstanceName, FrameworkId)

NoCall == [op |-> "init"]

\* A caller with one store, a DictTaskStore or a ZKTaskStore.
InitStores ==
    /\ heap = <<>>
    /\ tasks = <<>>
    /\ \/ stores = <<BuiltDict>> /\ zk = EmptyTree
       \/ stores = <<BuiltZK.store>> /\ zk = BuiltZK.zk
    /\ held = NoHeld
    /\ last = NoCall
    /\ running = <<>>

Spec == InitStores /\ [][NextStores]_vars

\* The same caller, keeping what its reads return.
InitKeeping ==
    /\ heap = <<>>
    /\ tasks = <<>>
    /\ \/ stores = <<BuiltDict>> /\ zk = EmptyTree
       \/ stores = <<BuiltZK.store>> /\ zk = BuiltZK.zk
    /\ held = [NoHeld EXCEPT !.keeping = TRUE]
    /\ last = NoCall
    /\ running = <<>>

SpecKeeping == InitKeeping /\ [][NextStores]_vars

SpecCollecting == InitStores /\ [][NextCollecting]_vars

\* A caller making every call on a DictTaskStore and on a ZKTaskStore.
InitBoth ==
    /\ heap = <<>>
    /\ tasks = <<>>
    /\ stores = <<BuiltDict, BuiltZK.store>>
    /\ zk = BuiltZK.zk
    /\ held = NoHeld
    /\ last = NoCall
    /\ running = <<>>

SpecBoth == InitBoth /\ [][NextStores]_vars

(***************************************************************************)
(* The same caller beside a writer that puts data of its own at a task's   *)
(* znode, with the client's set or create.                                 *)
(***************************************************************************)

\* Data that is no serialized MesosTaskParameters: bytes that are not JSON,
\* JSON that is no object, an object with a key outside the schema.
CorruptPayloads ==
    {NotJson, JsonArray, JsonObject([health |-> "true", foo |-> "true"])}

\* zk_client.set(path, data), or zk_client.create(path, data), at the znode
\* of task_id in the caller's ZKTaskStore.
WritePayload(task_id, data) ==
    LET st == stores[1]
        s == zk_set(zk, st.chroot, zk_path_from_task_id(task_id), data)
        c == zk_create(zk, st.chroot, zk_path_from_task_id(task_id), data)
    IN  /\ st.backend = "zk"
        /\ zk' = IF s.exc = "none" THEN s.zk ELSE c.zk
        /\ last' = [op |-> "write_payload", task_id |-> task_id, kwargs |-> data.obj,
                    res |-> <<[pre |-> read(Now, st, task_id), exc |-> "none",
                               ret |-> NoneVal, via |-> "none"]>>]
        /\ UNCHANGED <<heap, tasks, stores, held, running>>

NextCorrupt ==
    \/ NextStores
    \/ \E task_id \in TaskIds, data \in CorruptPayloads : WritePayload(task_id, data)

SpecCorrupt == InitStores /\ [][NextCorrupt]_vars

(***************************************************************************)
(* Two ZKTaskStores built on one ZooKeeper from two different triples,     *)
(* and calls made on either of them with the same task id.                 *)
(***************************************************************************)

\* The strings a triple is made of.
Names == {<<"a">>, <<"a", "/", "a">>}

\* The two stores, built one after the other.
BuiltTwo(tr1, tr2) ==
    LET b1 == ZKTaskStore_init(EmptyTree, tr1[1], tr1[2], tr1[3])
        b2 == ZKTaskStore_init(b1.zk, tr2[1], tr2[2], tr2[3])
    IN  [zk |-> b2.zk, stores |-> <<b1.store, b2.store>>]

InitTwo ==
    \E tr1, tr2 \in Names \X Names \X Names :
        /\ tr1 # tr2
        /\ heap = <<>>
        /\ tasks = <<>>
        /\ zk = BuiltTwo(tr1, tr2).zk
        /\ stores = BuiltTwo(tr1, tr2).stores
        /\ held = NoHeld
        /\ last = NoCall
        /\ running = <<>>

\* stores[i].overwrite_task(task_id, MesosTaskParameters(**kwargs))
CallOverwriteTaskOn(i, task_id, kwargs) ==
    LET params == new_object(heap, MesosTaskParameters(kwargs).val)
        w == overwrite_task([Now EXCEPT !.heap = params.heap], stores[i], task_id,
                            params.ref)
    IN  Commit(w.S, held,
               [op |-> "overwrite_task", store |-> i, task_id |-> task_id,
                kwargs |-> kwargs, exc |-> w.exc, ret |-> NoneVal])

\* stores[i].get_task(task_id)
CallGetTaskOn(i, task_id) ==
    LET g == get_task(Now, stores[i], task_id)
    IN  Commit(g.S, held,
               [op |-> "get_task", store |-> i, task_id |-> task_id,
                kwargs |-> NoKwargs, exc |-> g.exc, ret |-> value_of(g.S, g.ref)])

\* stores[i].get_all_tasks()
CallGetAllTasksOn(i) ==
    LET g == get_all_tasks(Now, stores[i])
    IN  Commit(g.S, held,
               [op |-> "get_all_tasks", store |-> i, task_id |-> <<>>,
                kwargs |-> NoKwargs, exc |-> g.exc, ret |-> values_of(g.S, g.map)])

NextTwo ==
    \/ \E i \in 1..2, kwargs \in ParamsKwargs : CallOverwriteTaskOn(i, TaskId(1), kwargs)
    \/ \E i \in 1..2 : CallGetTaskOn(i, TaskId(1))
    \/ \E i \in 1..2 : CallGetAllTasksOn(i)

SpecTwo == InitTwo /\ [][NextTwo]_vars

(***************************************************************************)
(* A caller of a ZKTaskStore whose task ids are any strings: an id of one  *)
(* path component, the same id after a '/', and an id with a '/' inside.   *)
(***************************************************************************)

OpaqueIds == {TaskId(1), <<"/">> \o TaskId(1), TaskId(1) \o <<"/", "x">>}

NextOpaque ==
    \/ \E task_id \in OpaqueIds : CallGetTask(task_id)
    \/ CallGetAllTasks
    \/ \E task_id \in OpaqueIds, kwargs \in ParamsKwargs :
           CallOverwriteTask(task_id, kwargs)
    \/ \E task_id \in OpaqueIds, kwargs \in ParamsKwargs :
           CallAddTaskIfDoesntExist(task_id, kwargs)
    \/ \E task_id \in OpaqueIds, kwargs \in ParamsKwargs :
           CallUpdateTask(task_id, kwargs)

InitOpaque ==
    /\ heap = <<>>
    /\ tasks = <<>>
    /\ stores = <<BuiltZK.store>>
    /\ zk = BuiltZK.zk
    /\ held = NoHeld
    /\ last = NoCall
    /\ running = <<>>

SpecOpaque == InitOpaque /\ [][NextOpaque]_vars

(***************************************************************************)
(* Two callers, each with a ZKTaskStore of the same triple on one          *)
(* ZooKeeper, making their calls at the same time.  A call is a sequence   *)
(* of steps, one per round trip to ZooKeeper: the get of get_task (with    *)
(* what the method computes from it), the set of overwrite_task, and its   *)
(* create.  The steps of the two callers interleave.                       *)
(***************************************************************************)

\* How many calls each caller makes.
MaxCallsEach == 1

\* The two callers.
Callers == {1, 2}

\* The fields a caller passes: each caller its own.
CallerKwargs(p) == IF p = 1 THEN [health |-> "True"] ELSE [is_draining |-> "True"]

\* A caller that has made no call yet.
NotCalling ==
    [pc |-> "idle", op |-> "none", task_id |-> <<>>, kwargs |-> NoKwargs,
     existing |-> NoneVal, params |-> NoneVal, exc |-> "none", via |-> "none",
     created |-> {}, calls |-> 0]

\* A faulty start of a call: add_task_if_doesnt_exist goes on to write
\* whatever get_task returned.
begin_call_unchecked(S, st, op, task_id, kwargs) ==
    LET g == get_task(S, st, task_id)
        made == MesosTaskParameters(kwargs)
    IN  [pc |-> "set", existing |-> value_of(g.S, g.ref), params |-> made.val,
         exc |-> "none"]

\* What a call does up to its first write: overwrite_task has its params;
\* add_task_if_doesnt_exist calls get_task and returns if it is not None;
\* update_task calls get_task and merges, or builds the value from kwargs.
\* pc is "set" when the call goes on to overwrite_task, "done" when it ends.
begin_call(S, st, op, task_id, kwargs) ==
    LET g == get_task(S, st, task_id)
        made == MesosTaskParameters(kwargs)
        m == merge(g.S.heap, g.ref, kwargs)
        existing == value_of(g.S, g.ref)
    IN  CASE op = "overwrite_task" ->
                [pc |-> "set", existing |-> NoneVal, params |-> made.val, exc |-> "none"]
          [] op # "overwrite_task" /\ g.exc # "none" ->
                [pc |-> "done", existing |-> NoneVal, params |-> NoneVal, exc |-> g.exc]
          [] op = "add_task_if_doesnt_exist" /\ g.exc = "none" ->
                IF g.ref # NoRef
                THEN [pc |-> "done", existing |-> existing, params |-> NoneVal,
                      exc |-> "none"]
                ELSE [pc |-> "set", existing |-> existing, params |-> made.val,
                      exc |-> "none"]
          [] op = "update_task" /\ g.exc = "none" ->
                IF g.ref # NoRef
                THEN [pc |-> IF m.exc = "none" THEN "set" ELSE "done",
                      existing |-> existing, params |-> m.val, exc |-> m.exc]
                ELSE [pc |-> "set", existing |-> existing, params |-> made.val,
                      exc |-> "none"]

\* Caller p starts a call and runs it up to its first write.
StartCall(p, op, task_id) ==
    LET b == begin_call(Now, stores[1], op, task_id, CallerKwargs(p))
    IN  /\ running[p].pc \in {"idle", "done"}
        /\ running[p].calls < MaxCallsEach
        /\ running' = [running EXCEPT ![p] =
                           [@ EXCEPT !.pc = b.pc, !.op = op, !.task_id = task_id,
                                     !.kwargs = CallerKwargs(p),
                                     !.existing = b.existing, !.params = b.params,
                                     !.exc = b.exc, !.via = "none",
                                     !.calls = @ + 1]]
        /\ last' = [op |-> "start", caller |-> p]
        /\ UNCHANGED <<heap, tasks, zk, stores, held>>

\* overwrite_task of caller p: zk_client.set(path, params.serialize())
TrySet(p) ==
    LET r == running[p]
        w == zk_set(zk, stores[1].chroot, zk_path_from_task_id(r.task_id),
                    serialize(r.params))
    IN  /\ r.pc = "set"
        /\ zk' = w.zk
        /\ running' = [running EXCEPT ![p] =
                           IF w.exc = "none"
                           THEN [@ EXCEPT !.pc = "done", !.via = "set"]
                           ELSE [@ EXCEPT !.pc = "create"]]
        /\ last' = [op |-> "set", caller |-> p]
        /\ UNCHANGED <<heap, tasks, stores, held>>

\* overwrite_task of caller p, after NoNodeError:
\* zk_client.create(path, params.serialize()); its exception propagates.
TryCreate(p) ==
    LET r == running[p]
        w == zk_create(zk, stores[1].chroot, zk_path_from_task_id(r.task_id),
                       serialize(r.params))
    IN  /\ r.pc = "create"
        /\ zk' = w.zk
        /\ running' = [running EXCEPT ![p] =
                           [@ EXCEPT !.pc = "done", !.via = "create", !.exc = w.exc,
                                     !.created = IF w.exc = "none"
                                                 THEN @ \cup {r.task_id} ELSE @]]
        /\ last' = [op |-> "create", caller |-> p]
        /\ UNCHANGED <<heap, tasks, stores, held>>

NextRacing ==
    \/ \E p \in Callers, task_id \in TaskIds,
          op \in {"overwrite_task", "add_task_if_doesnt_exist", "update_task"} :
           StartCall(p, op, task_id)
    \/ \E p \in Callers : TrySet(p)
    \/ \E p \in Callers : TryCreate(p)

\* The value a task written before the callers start holds.
BaseKwargs == [mesos_task_state |-> "'TASK_RUNNING'"]

\* The ZooKeeper the callers start on: the store as built, or with the
\* first task written to it.
BuiltWithTask ==
    LET params == new_object(<<>>, MesosTaskParameters(BaseKwargs).val)
    IN  overwrite_task([heap |-> params.heap, tasks |-> <<>>, zk |-> BuiltZK.zk],
                       BuiltZK.store, TaskId(1), params.ref).S.zk

InitRacing ==
    /\ heap = <<>>
    /\ tasks = <<>>
    /\ stores = <<BuiltZK.store>>
    /\ zk \in {BuiltZK.zk, BuiltWithTask}
    /\ held = NoHeld
    /\ last = NoCall
    /\ running = [p \in Callers |-> NotCalling]

SpecRacing == InitRacing /\ [][NextRacing]_vars

(***************************************************************************)
(* ZKTaskStore.__init__ statement by statement.  A KazooClient is "new"    *)
(* when constructed, "started" while its connection is open, "stopped"     *)
(* after stop() and "closed" after close().  start() and ensure_path() can *)
(* raise (no server reached, connection lost); the exception leaves        *)
(* __init__ at once, as nothing there catches it.  A start() that raises   *)
(* has closed its own connection.                                          *)
(***************************************************************************)

\* __init__ about to run line 131 for the triple, no client made yet.
Constructing(triple) ==
    [op |-> "__init__", pc |-> "temp_zk_client = KazooClient", triple |-> triple,
     temp_zk_client |-> "none", zk_client |-> "none", exc |-> "none"]

\* The statement at pc has run: the constructor is at pc2 with the clients
\* as given.
Goto(pc, pc2, temp, client, z) ==
    /\ running[1].pc = pc
    /\ running' = <<[running[1] EXCEPT !.pc = pc2, !.temp_zk_client = temp,
                                        !.zk_client = client]>>
    /\ zk' = z
    /\ last' = [op |-> pc]
    /\ UNCHANGED <<heap, tasks, stores, held>>

\* The statement at pc has raised exc, which ends __init__.
Raise(pc, exc, temp, client) ==
    /\ running[1].pc = pc
    /\ running' = <<[running[1] EXCEPT !.pc = "raised", !.exc = exc,
                                        !.temp_zk_client = temp, !.zk_client = client]>>
    /\ last' = [op |-> pc]
    /\ UNCHANGED <<heap, tasks, zk, stores, held>>

\* line 131: temp_zk_client = KazooClient(hosts=self.zk_hosts)
NewTempClient ==
    Goto("temp_zk_client = KazooClient", "temp_zk_client.start", "new",
         running[1].zk_client, zk)

\* line 132: temp_zk_client.start()
StartTempClient(ok) ==
    IF ok
    THEN Goto("temp_zk_client.start", "temp_zk_client.ensure_path", "started",
              running[1].zk_client, zk)
    ELSE Raise("temp_zk_client.start", "KazooTimeoutError", "closed", running[1].zk_client)

\* line 133: temp_zk_client.ensure_path(chroot)
EnsureChroot(ok) ==
    LET t == running[1].triple
    IN  IF ok
        THEN Goto("temp_zk_client.ensure_path", "temp_zk_client.stop",
                  running[1].temp_zk_client, running[1].zk_client,
                  zk_ensure_path(zk, <<>>, chroot_of(t[1], t[2], t[3])))
        ELSE Raise("temp_zk_client.ensure_path", "ConnectionLoss",
                   running[1].temp_zk_client, running[1].zk_client)

\* line 134: temp_zk_client.stop()
StopTempClient ==
    Goto("temp_zk_client.stop", "temp_zk_client.close", "stopped",
         running[1].zk_client, zk)

\* line 135: temp_zk_client.close()
CloseTempClient ==
    Goto("temp_zk_client.close", "zk_client = KazooClient", "closed",
         running[1].zk_client, zk)

\* line 137: self.zk_client = KazooClient(hosts='%s/%s' % (self.zk_hosts, chroot))
NewClient ==
    Goto("zk_client = KazooClient", "zk_client.start", running[1].temp_zk_client,
         "new", zk)

\* line 138: self.zk_client.start()
StartClient(ok) ==
    IF ok
    THEN Goto("zk_client.start", "zk_client.ensure_path", running[1].temp_zk_client,
              "started", zk)
    ELSE Raise("zk_client.start", "KazooTimeoutError", running[1].temp_zk_client,
               "closed")

\* line 139: self.zk_client.ensure_path('/'), the last statement: the store
\* is built.
EnsureRoot(ok) ==
    LET t == running[1].triple
        c == normpath(<<"/">> \o chroot_of(t[1], t[2], t[3]))
    IN  IF ok
        THEN /\ running[1].pc = "zk_client.ensure_path"
             /\ running' = <<[running[1] EXCEPT !.pc = "returned"]>>
             /\ zk' = zk_ensure_path(zk, c, <<"/">>)
             /\ stores' = <<[backend |-> "zk", chroot |-> c, triple |-> t]>>
             /\ last' = [op |-> "zk_client.ensure_path"]
             /\ UNCHANGED <<heap, tasks, held>>
        ELSE Raise("zk_client.ensure_path", "ConnectionLoss",
                   running[1].temp_zk_client, running[1].zk_client)

NextConstructing ==
    \/ NewTempClient
    \/ \E ok \in BOOLEAN : StartTempClient(ok)
    \/ \E ok \in BOOLEAN : EnsureChroot(ok)
    \/ StopTempClient
    \/ CloseTempClient
    \/ NewClient
    \/ \E ok \in BOOLEAN : StartClient(ok)
    \/ \E ok \in BOOLEAN : EnsureRoot(ok)

\* ZKTaskStore(service_name, instance_name, framework_id, config) is called
\* on a ZooKeeper that is empty or holds the namespace of an earlier store.
InitConstructing ==
    /\ heap = <<>>
    /\ tasks = <<>>
    /\ zk \in {EmptyTree, BuiltZK.zk, BuiltWithTask}
    /\ stores = <<>>
    /\ held = NoHeld
    /\ last = NoCall
    /\ \E triple \in (Names \cup {ServiceName}) \X Names \X Names :
           running = <<Constructing(triple)>>

SpecConstructing == InitConstructing /\ [][NextConstructing]_vars

(***************************************************************************)
(* Properties                                                              *)
(***************************************************************************)

\* x with the fields of kwargs taking the values given and every other
\* field kept.
Overridden(x, kwargs) ==
    [k \in DOMAIN x |-> IF k \in DOMAIN kwargs THEN kwargs[k] ELSE x[k]]

\* What a store holds, by value.
contents(h, t, z) == [tasks |-> [id \in DOMAIN t |-> h[t[id]]], zk |-> z]

Absent == [exc |-> "none", val |-> NoneVal]

\* C1: x.merge(**F) leaves every field of the receiver x as it was, and what
\* it returns is x with the fields of F overridden.  (SpecValue)
C1_MergeLeavesReceiver ==
    last.op = "merge" =>
        /\ heap[1] = last.pre
        /\ last.exc = "none" => last.ret = Overridden(last.pre, last.kwargs)

\* C2: a value that get_all_tasks or get_task returned is not changed by
\* the calls made on the store afterwards.  (SpecKeeping)
C2_ReturnedValuesAreSnapshots ==
    \A i \in DOMAIN held.refs :
        \A id \in DOMAIN held.refs[i] : heap[held.refs[i][id]] = held.vals[i][id]

\* C5: add_task_if_doesnt_exist(id, F) on an id that get_task finds leaves the
\* store as it is; on an absent id, when it returns, get_task(id) is
\* MesosTaskParameters(F).  So the value of the first add stays whatever adds
\* follow.  (Spec)
C5_AddIsIdempotent ==
    [][last'.op = "add_task_if_doesnt_exist" =>
          \A i \in DOMAIN stores :
              IF read(Now, stores[i], last'.task_id).val # NoneVal
              THEN /\ contents(heap', tasks', zk') = contents(heap, tasks, zk)
                   /\ last'.res[i].exc = "none"
              ELSE last'.res[i].exc = "none" =>
                       read([heap |-> heap', tasks |-> tasks', zk |-> zk'],
                            stores[i], last'.task_id)
                           = [exc |-> "none",
                              val |-> MesosTaskParameters(last'.kwargs).val]]_vars

\* C5, its case: a second add with another value has left the first value.
C5_Witness ==
    /\ last.op = "add_task_if_doesnt_exist"
    /\ last.kwargs = [health |-> "False", is_draining |-> "True"]
    /\ last.res[1].pre.val # NoneVal
    /\ last.res[1].pre.val = MesosTaskParameters([health |-> "True"]).val
    /\ read(Now, stores[1], last.task_id).val = MesosTaskParameters([health |-> "True"]).val

WritesTo(l, task_id) ==
    /\ l.op \in {"overwrite_task", "add_task_if_doesnt_exist", "update_task"}
    /\ l.task_id = task_id

\* The data at the znode of task_id in store st, EmptyBytes if there is none.
data_at(z, st, task_id) == zk_get(z, st.chroot, zk_path_from_task_id(task_id)).data

\* C3: whatever data that is no serialized MesosTaskParameters lies at a
\* task's znode, get_task of that id returns None and raises nothing, and
\* get_all_tasks raises nothing and returns the well-formed tasks without
\* that id.  (SpecCorrupt)
C3_CorruptionTolerated ==
    \A i \in DOMAIN stores :
        stores[i].backend = "zk" =>
            \A id \in TaskIds :
                data_at(zk, stores[i], id) \in CorruptPayloads =>
                    /\ read(Now, stores[i], id) = Absent
                    /\ read_all(Now, stores[i]).exc = "none"
                    /\ id \notin DOMAIN read_all(Now, stores[i]).val
                    /\ \A other \in TaskIds :
                           deserialize(data_at(zk, stores[i], other)).exc = "none"
                               => other \in DOMAIN read_all(Now, stores[i]).val

\* C4: with two stores built from different triples, a write through one
\* store changes nothing of what the other store reads.  (SpecTwo)
C4_NamespaceIsolation ==
    [][\A i \in 1..2 :
          (last'.op = "overwrite_task" /\ last'.store = i)
              => read_all([heap |-> heap', tasks |-> tasks', zk |-> zk'], stores[3 - i])
                     = read_all(Now, stores[3 - i])]_vars

C9_BackendParity ==
    /\ last.op # "init" =>
           /\ (last.res[1].exc = "none") <=> (last.res[2].exc = "none")
           /\ last.res[1].ret = last.res[2].ret
    /\ read_all(Now, stores[1]) = read_all(Now, stores[2])

\* C10: deserialize(x.serialize()) == x for every x built from the six
\* fields, and deserialize of an object with a key outside them raises.
\* (SpecValue)
C10_RoundTrip ==
    /\ (last.op = "roundtrip" /\ DOMAIN last.pre = SchemaKeys)
           => (last.exc = "none" /\ last.ret = last.pre)
    /\ (last.op = "deserialize" /\ ~(DOMAIN last.kwargs \subseteq SchemaKeys))
           => (last.exc # "none" /\ last.ret = NoneVal)

\* C10, its case: a value with fields set and unset came back equal.
C10_Witness ==
    /\ last.op = "roundtrip"
    /\ last.pre.health = "False"
    /\ last.pre.resources = "[1]"
    /\ last.pre.offer = PyNone
    /\ last.exc = "none"
    /\ last.ret = last.pre

\* C11: no call removes a task: when get_task(id) gives a value, it gives a
\* value after every step of a caller that makes any of the six calls,
\* garbage_collect_old_tasks among them.  (SpecCollecting)
C11_NoDeletion ==
    [][\A i \in DOMAIN stores, id \in TaskIds :
          read(Now, stores[i], id).val # NoneVal
              => read([heap |-> heap', tasks |-> tasks', zk |-> zk'], stores[i], id).val
                     # NoneVal]_vars

\* C11, its case: a task that was written is still there after a
\* garbage_collect_old_tasks and an update that followed its write.
C11_Witness ==
    /\ last.op = "garbage_collect_old_tasks"
    /\ TaskId(1) \in DOMAIN last.res[1].pre.val
    /\ read(Now, stores[1], TaskId(1)).val
           = MesosTaskParameters([health |-> "True", is_draining |-> "True"]).val

\* C12: garbage_collect_old_tasks(max_dead_task_age) raises
\* NotImplementedError on either backend, whatever the age and the state,
\* and leaves what the store holds as it is.  (SpecCollecting)
C12_GarbageCollectNotImplemented ==
    [][last'.op = "garbage_collect_old_tasks" =>
          /\ \A i \in DOMAIN stores : last'.res[i].exc = "NotImplementedError"
          /\ contents(heap', tasks', zk') = contents(heap, tasks, zk)]_vars

\* C12, its case: the call was made on a store that holds a task.
C12_Witness ==
    /\ last.op = "garbage_collect_old_tasks"
    /\ last.max_dead_task_age = 0
    /\ last.res[1].exc = "NotImplementedError"
    /\ last.res[1].pre.val # <<>>
    /\ read_all(Now, stores[1]) = last.res[1].pre

\* C13: setting or deleting an attribute of a MesosTaskParameters, a field
\* or any other name, raises MesosTaskParametersIsImmutableError and leaves
\* the six fields as they were.  (SpecValue)
C13_BlockedMutation ==
    last.op \in {"setattr", "delattr"} =>
        /\ last.exc = "MesosTaskParametersIsImmutableError"
        /\ heap[1] = last.pre

\* C13, its case: an attempt to set a field that holds another value.
C13_Witness ==
    /\ last.op = "setattr"
    /\ last.kwargs = [health |-> "True"]
    /\ last.pre.health = "False"
    /\ last.exc = "MesosTaskParametersIsImmutableError"
    /\ heap[1].health = "False"

\* Caller p ends its overwrite_task in this step, by its set or its create.
EndsWrite(p) ==
    /\ running[p].pc \in {"set", "create"}
    /\ running'[p].pc = "done"

\* C14: two overwrite_task calls on one absent task_id can both fail their
\* set and both call create, and then the second create raises
\* NodeExistsError (the witness).  Whenever a create of overwrite_task
\* raises, it is NodeExistsError, nothing is written, the znode holds
\* another value than the caller's, and another caller has created that
\* znode: with one writer per task_id it does not happen.  (SpecRacing)
C14_CreateFailsOnlyInARace ==
    [][\A p \in Callers :
          (EndsWrite(p) /\ running'[p].exc # "none") =>
              /\ running[p].pc = "create"
              /\ running'[p].exc = "NodeExistsError"
              /\ zk' = zk
              /\ data_at(zk', stores[1], running[p].task_id) # serialize(running[p].params)
              /\ \E q \in Callers \ {p} : running[p].task_id \in running[q].created]_vars

\* C14, its case: both callers' sets failed, both called create, the
\* second create raised and the znode holds the first caller's value.
C14_Witness ==
    /\ \A p \in Callers :
           /\ running[p].op = "overwrite_task"
           /\ running[p].task_id = TaskId(1)
           /\ running[p].pc = "done"
           /\ running[p].via = "create"
    /\ running[1].exc = "none"
    /\ running[2].exc = "NodeExistsError"
    /\ read(Now, stores[1], TaskId(1)).val = running[1].params
    /\ running[2].params # running[1].params

\* C15: two update_task calls on one task_id with different fields can read
\* the same value and write one after the other, and then the stored value
\* has the later writer's field only (the witness).  In every interleaving
\* a write that ends without an exception leaves the znode holding the value
\* its caller merged (and for update_task returns), which is the value the
\* caller read with its fields overridden, and the data of a znode changes
\* by such a write only.  (SpecRacing)
C15_StoredIsACallersResult ==
    [][/\ \A p \in Callers :
              (EndsWrite(p) /\ running'[p].exc = "none") =>
                  /\ data_at(zk', stores[1], running[p].task_id)
                         = serialize(running[p].params)
                  /\ running[p].op = "update_task" =>
                         running[p].params =
                             IF running[p].existing = NoneVal
                             THEN MesosTaskParameters(running[p].kwargs).val
                             ELSE Overridden(running[p].existing, running[p].kwargs)
       /\ \A id \in TaskIds :
              data_at(zk', stores[1], id) # data_at(zk, stores[1], id) =>
                  \E p \in Callers :
                      /\ running[p].task_id = id
                      /\ EndsWrite(p)
                      /\ running'[p].exc = "none"]_vars

\* C15, its case: both callers read the value written before them, both
\* returned, and the stored value is the second caller's: health, which the
\* first caller set and returned, is not in it.
C15_Witness ==
    /\ \A p \in Callers :
           /\ running[p].op = "update_task"
           /\ running[p].task_id = TaskId(1)
           /\ running[p].pc = "done"
           /\ running[p].exc = "none"
           /\ running[p].existing = MesosTaskParameters(BaseKwargs).val
    /\ running[1].params.health = "True"
    /\ read(Now, stores[1], TaskId(1)).val = running[2].params
    /\ read(Now, stores[1], TaskId(1)).val.health = PyNone
    /\ read(Now, stores[1], TaskId(1)).val.is_draining = "True"

\* C16: two add_task_if_doesnt_exist calls on one absent task_id can both
\* find it absent and both write, and then the store holds the value written
\* second (the witness).  In every interleaving the call goes on to write
\* exactly when its own get_task returned None, its check changes nothing,
\* and a write of the call is made by a caller that found the id absent.
\* (SpecRacing)
C16_AddWritesAfterItsOwnCheck ==
    [][\A p \in Callers :
          /\ (running'[p].op = "add_task_if_doesnt_exist"
                 /\ running'[p].calls # running[p].calls) =>
                 /\ zk' = zk
                 /\ (running'[p].pc = "set")
                        <=> (read(Now, stores[1], running'[p].task_id).val = NoneVal)
                 /\ running'[p].pc \in {"set", "done"}
          /\ (running[p].op = "add_task_if_doesnt_exist" /\ EndsWrite(p)) =>
                 running[p].existing = NoneVal]_vars

\* C16, its case: both callers found the id absent, the first created the
\* znode and the second set it: the store holds the second value.
C16_Witness ==
    /\ \A p \in Callers :
           /\ running[p].op = "add_task_if_doesnt_exist"
           /\ running[p].task_id = TaskId(1)
           /\ running[p].pc = "done"
           /\ running[p].exc = "none"
           /\ running[p].existing = NoneVal
    /\ running[1].via = "create"
    /\ running[2].via = "set"
    /\ read(Now, stores[1], TaskId(1)).val = MesosTaskParameters(CallerKwargs(2)).val
    /\ read(Now, stores[1], TaskId(1)).val # MesosTaskParameters(CallerKwargs(1)).val

\* C17: in ZKTaskStore.__init__ the temporary client's connection is closed
\* before the primary client exists, and it is not open when __init__ ends,
\* by return or by an exception of start or ensure_path.  (SpecConstructing)
C17_BootstrapConnectionScoped ==
    /\ running[1].zk_client # "none" => running[1].temp_zk_client = "closed"
    /\ running[1].pc \in {"returned", "raised"} => running[1].temp_zk_client # "started"

\* C18: a write that raises because it is given a field outside the schema
\* leaves the store as it was: get_task(id) gives what it gave before the call, and
\* a valid update_task or overwrite_task on id afterwards succeeds.  (Spec)
C18_FailedWriteLeavesState ==
    [][\A i \in DOMAIN stores :
          /\ (WritesTo(last', last'.task_id)
                 /\ ~(DOMAIN last'.kwargs \subseteq SchemaKeys)
                 /\ last'.res[i].exc # "none") =>
                 read([heap |-> heap', tasks |-> tasks', zk |-> zk'], stores[i],
                      last'.task_id)
                     = read(Now, stores[i], last'.task_id)
          /\ (WritesTo(last', last'.task_id)
                 /\ DOMAIN last'.kwargs \subseteq SchemaKeys) =>
                 last'.res[i].exc = "none"]_vars

\* The task ids of the callers.
AllIds == TaskIds \cup OpaqueIds

\* C19: the keys of get_all_tasks() are the task ids for which get_task
\* gives a value, and get_all_tasks()[id] equals get_task(id) for each of
\* them; so every task that was written is among them.  (SpecOpaque)
C19_EnumerationAgreesWithLookup ==
    \A i \in DOMAIN stores :
        /\ read_all(Now, stores[i]).exc = "none"
        /\ DOMAIN read_all(Now, stores[i]).val
               = {id \in AllIds : read(Now, stores[i], id).val # NoneVal}
        /\ \A id \in DOMAIN read_all(Now, stores[i]).val :
               read_all(Now, stores[i]).val[id] = read(Now, stores[i], id).val

\* C20: overwrite_task, add_task_if_doesnt_exist and update_task on a task
\* id leave get_task of every other id as it was, and get_task and
\* get_all_tasks leave get_task of every id as it was.  (SpecOpaque)
C20_PerTaskFrame ==
    [][\A i \in DOMAIN stores, id \in AllIds :
          (WritesTo(last', last'.task_id) => id # last'.task_id)
              => read([heap |-> heap', tasks |-> tasks', zk |-> zk'], stores[i], id)
                     = read(Now, stores[i], id)]_vars

====
